---- MODULE Spec2Model ----
(***************************************************************************)
(* A model of fp-result: the Result container (src/src/result.ts) with its *)
(* two private variants Ok and Err, and the ResultErr base class.          *)
(*                                                                         *)
(* Result instances live in a heap (a sequence; an instance's identity is  *)
(* its index).  Error objects are JavaScript objects with identity: they   *)
(* are the members of ErrIds, and two of them carry the same message.      *)
(* Every public operation is one action; it records in `last` what was     *)
(* called, what it returned or threw, and which callbacks it invoked.      *)
(***************************************************************************)
EXTENDS Integers, Sequences, FiniteSets, TLC

VARIABLES results, last

vars == <<results, last>>

\* Bounds of the model.
MaxResults == 2
MaxNum == 1

(***************************************************************************)
(* JavaScript values.  Strings are sequences of characters.                *)
(***************************************************************************)
Null == [kind |-> "null", n |-> 0, s |-> <<>>]

Undefined == [kind |-> "undefined", n |-> 0, s |-> <<>>]

NaN == [kind |-> "nan", n |-> 0, s |-> <<>>]

Bool(b) == [kind |-> "bool", n |-> IF b THEN 1 ELSE 0, s |-> <<>>]

Num(k) == [kind |-> "num", n |-> k, s |-> <<>>]

Str(chars) == [kind |-> "str", n |-> 0, s |-> chars]

ErrRef(e) == [kind |-> "err", n |-> e, s |-> <<>>]

ResRef(i) == [kind |-> "result", n |-> i, s |-> <<>>]

\* The error objects of the test: instances of MyError extends ResultErr.
\* Objects 1 and 2 are distinct objects with equal messages.
ErrIds == {1, 2}

message(e) == <<"f", "a", "i", "l", "e", "d">>

_tag(e) == "MyError"

Errors == {ErrRef(e) : e \in ErrIds}

Plain == {Null, Undefined, Bool(FALSE), Str(<<>>)} \cup {Num(k) : k \in 0..MaxNum}

Values == Plain \cup Errors

Digit(d) == <<"0", "1", "2", "3", "4", "5", "6", "7", "8", "9">>[d + 1]

RECURSIVE NumToStr(_)
NumToStr(k) == IF k < 10 THEN <<Digit(k)>> ELSE NumToStr(k \div 10) \o <<Digit(k % 10)>>

\* String conversion of a template literal: `${v}`.
ToStr(v) ==
  CASE v.kind = "null" -> <<"n", "u", "l", "l">>
    [] v.kind = "undefined" -> <<"u", "n", "d", "e", "f", "i", "n", "e", "d">>
    [] v.kind = "nan" -> <<"N", "a", "N">>
    [] v.kind = "bool" -> IF v.n = 1 THEN <<"t", "r", "u", "e">> ELSE <<"f", "a", "l", "s", "e">>
    [] v.kind = "num" -> NumToStr(v.n)
    [] v.kind = "str" -> v.s
    [] v.kind = "err" -> IF message(v.n) = <<>> THEN <<"E", "r", "r", "o", "r">>
                         ELSE <<"E", "r", "r", "o", "r", ":", " ">> \o message(v.n)
    [] OTHER -> <<"[", "o", "b", "j", "e", "c", "t", "]">>

\* JavaScript truthiness.
Truthy(v) ==
  CASE v.kind \in {"null", "undefined", "nan"} -> FALSE
    [] v.kind = "bool" -> v.n = 1
    [] v.kind = "num" -> v.n # 0
    [] v.kind = "str" -> v.s # <<>>
    [] OTHER -> TRUE

(***************************************************************************)
(* Callbacks handed to map, fold and getOrElse.                            *)
(***************************************************************************)
Id == [name |-> "id", c |-> Undefined]

Succ == [name |-> "succ", c |-> Undefined]

MsgLen == [name |-> "msgLen", c |-> Undefined]

Const(v) == [name |-> "const", c |-> v]

NoFn == [name |-> "none", c |-> Undefined]

Fns == {Id, Succ, MsgLen, Const(Num(0)), Const(Null)}

Apply(f, v) ==
  CASE f.name = "id" -> v
    [] f.name = "const" -> f.c
    [] f.name = "succ" -> IF v.kind = "num" THEN Num(v.n + 1) ELSE NaN
    [] f.name = "msgLen" -> IF v.kind = "err" THEN Num(Len(message(v.n))) ELSE Undefined
    [] OTHER -> Undefined

\* The static type of a callback's parameter admits the payload.
Accepts(f, v) ==
  CASE f.name = "succ" -> v.kind = "num" /\ v.n < MaxNum
    [] f.name = "msgLen" -> v.kind = "err"
    [] OTHER -> TRUE

Invoked(slot, f, v) == [slot |-> slot, fn |-> f, arg |-> v]

(***************************************************************************)
(* What one method call does: the heap after it, whether it returned or    *)
(* threw, the value returned or thrown, the callbacks it invoked in order, *)
(* and (toJSON) the object it built.                                       *)
(***************************************************************************)
NoJSON == [value |-> Undefined, isOk |-> FALSE, isErr |-> FALSE]

Returns(h, v, calls) == [heap |-> h, kind |-> "return", ret |-> v, calls |-> calls, json |-> NoJSON]

Throws(h, v) == [heap |-> h, kind |-> "throw", ret |-> v, calls |-> <<>>, json |-> NoJSON]

(***************************************************************************)
(* class Result                                                            *)
(***************************************************************************)
Result(class, value, isOkFlag, isErrFlag) ==
  [class |-> class, _value |-> value, _isOk |-> isOkFlag, _isErr |-> isErrFlag]

isOk(h, this) == h[this]._isOk

isErr(h, this) == h[this]._isErr

value(h, this) == h[this]._value

\* A variant of getOrDefault that tests the payload for null instead of the flag.
getOrDefault_nullish(h, this, defaultValue) ==
  Returns(h, IF value(h, this).kind \in {"null", "undefined"} THEN defaultValue ELSE value(h, this), <<>>)

getOrDefault(h, this, defaultValue) ==
  Returns(h, IF isOk(h, this) THEN value(h, this) ELSE defaultValue, <<>>)

\* A variant of getOrElse that computes the fallback before testing the flag.
getOrElse_eager(h, this, onErr) ==
  Returns(h, IF isOk(h, this) THEN value(h, this) ELSE Apply(onErr, value(h, this)),
          <<Invoked("onErr", onErr, value(h, this))>>)

getOrElse(h, this, onErr) ==
  IF isOk(h, this)
  THEN Returns(h, value(h, this), <<>>)
  ELSE Returns(h, Apply(onErr, value(h, this)), <<Invoked("onErr", onErr, value(h, this))>>)

\* A variant of toJSON whose isErr field repeats isOk.
toJSON_sameFlag(h, this) ==
  [Returns(h, Undefined, <<>>) EXCEPT
     !.json = [value |-> h[this]._value, isOk |-> isOk(h, this), isErr |-> isOk(h, this)]]

toJSON(h, this) ==
  [Returns(h, Undefined, <<>>) EXCEPT
     !.json = [value |-> h[this]._value, isOk |-> isOk(h, this), isErr |-> isErr(h, this)]]

(***************************************************************************)
(* class Ok                                                                *)
(***************************************************************************)
Ok(v) == Result("Ok", v, TRUE, FALSE)

\* A variant of Ok.map that replaces a falsy result by null.
Ok_map_orNull(h, this, fn) ==
  Returns(Append(h, Ok(IF Truthy(Apply(fn, value(h, this))) THEN Apply(fn, value(h, this)) ELSE Null)),
          ResRef(Len(h) + 1), <<Invoked("fn", fn, value(h, this))>>)

Ok_map(h, this, fn) ==
  Returns(Append(h, Ok(Apply(fn, value(h, this)))), ResRef(Len(h) + 1),
          <<Invoked("fn", fn, value(h, this))>>)

Ok_fold(h, this, ifOk, ifErr) ==
  Returns(h, Apply(ifOk, value(h, this)), <<Invoked("ifOk", ifOk, value(h, this))>>)

\* A variant of Ok.getOrNull that replaces a falsy payload by null.
Ok_getOrNull_orNull(h, this) ==
  Returns(h, IF Truthy(h[this]._value) THEN h[this]._value ELSE Null, <<>>)

Ok_getOrNull(h, this) == Returns(h, h[this]._value, <<>>)

Ok_errOrNull(h, this) == Returns(h, Null, <<>>)

Ok_getOrThrow(h, this) == Returns(h, h[this]._value, <<>>)

Ok_toString(h, this) ==
  Returns(h, Str(<<"O", "k", "(">> \o ToStr(h[this]._value) \o <<")">>), <<>>)

(***************************************************************************)
(* class Err                                                               *)
(***************************************************************************)
\* A variant of the Err constructor that sets both flags.
Err_bothFlags(v) == Result("Err", v, TRUE, TRUE)

Err(v) == Result("Err", v, FALSE, TRUE)

\* A variant of Err.map that invokes fn on the error before passing it through.
Err_map_invokes(h, this, fn) == Returns(h, ResRef(this), <<Invoked("fn", fn, value(h, this))>>)

Err_map(h, this, fn) == Returns(h, ResRef(this), <<>>)

\* A variant of Err.fold that applies the Ok handler.
Err_fold_wrongHandler(h, this, ifOk, ifErr) ==
  Returns(h, Apply(ifOk, value(h, this)), <<Invoked("ifOk", ifOk, value(h, this))>>)

Err_fold(h, this, ifOk, ifErr) ==
  Returns(h, Apply(ifErr, value(h, this)), <<Invoked("ifErr", ifErr, value(h, this))>>)

Err_getOrNull(h, this) == Returns(h, Null, <<>>)

Err_errOrNull(h, this) == Returns(h, h[this]._value, <<>>)

\* A variant of Err.getOrThrow that throws a fresh error object with the same message.
Err_getOrThrow_copy(h, this) == Throws(h, ErrRef(0))

Err_getOrThrow(h, this) == Throws(h, h[this]._value)

Err_toString(h, this) ==
  Returns(h, Str(<<"E", "r", "r", "(">> \o message(h[this]._value.n) \o <<")">>), <<>>)

(***************************************************************************)
(* Dispatch of the abstract methods on the instance's class.               *)
(***************************************************************************)
map(h, this, fn) ==
  IF h[this].class = "Ok" THEN Ok_map(h, this, fn) ELSE Err_map(h, this, fn)

fold(h, this, ifOk, ifErr) ==
  IF h[this].class = "Ok" THEN Ok_fold(h, this, ifOk, ifErr) ELSE Err_fold(h, this, ifOk, ifErr)

getOrNull(h, this) ==
  IF h[this].class = "Ok" THEN Ok_getOrNull(h, this) ELSE Err_getOrNull(h, this)

errOrNull(h, this) ==
  IF h[this].class = "Ok" THEN Ok_errOrNull(h, this) ELSE Err_errOrNull(h, this)

getOrThrow(h, this) ==
  IF h[this].class = "Ok" THEN Ok_getOrThrow(h, this) ELSE Err_getOrThrow(h, this)

toString(h, this) ==
  IF h[this].class = "Ok" THEN Ok_toString(h, this) ELSE Err_toString(h, this)

(***************************************************************************)
(* The static factories.                                                   *)
(***************************************************************************)
ok(h, v) == Returns(Append(h, Ok(v)), ResRef(Len(h) + 1), <<>>)

err(h, v) == Returns(Append(h, Err(v)), ResRef(Len(h) + 1), <<>>)

(***************************************************************************)
(* The state machine: any sequence of calls by client code.                *)
(***************************************************************************)
Record(op, this, f1, f2, arg, e) ==
  [op |-> op, self |-> this, fn1 |-> f1, fn2 |-> f2, arg |-> arg,
   kind |-> e.kind, ret |-> e.ret, calls |-> e.calls, json |-> e.json]

Do(op, this, f1, f2, arg, e) ==
  /\ Len(e.heap) <= MaxResults
  /\ results' = e.heap
  /\ last' = Record(op, this, f1, f2, arg, e)

Init ==
  /\ results = <<>>
  /\ last = Record("none", 0, NoFn, NoFn, Undefined, Returns(<<>>, Undefined, <<>>))

CallOk == \E v \in Values : Do("ok", 0, NoFn, NoFn, v, ok(results, v))

CallErr == \E v \in Errors : Do("err", 0, NoFn, NoFn, v, err(results, v))

ReadIsOk ==
  \E i \in DOMAIN results :
    Do("isOk", i, NoFn, NoFn, Undefined, Returns(results, Bool(isOk(results, i)), <<>>))

ReadIsErr ==
  \E i \in DOMAIN results :
    Do("isErr", i, NoFn, NoFn, Undefined, Returns(results, Bool(isErr(results, i)), <<>>))

ReadValue ==
  \E i \in DOMAIN results :
    Do("value", i, NoFn, NoFn, Undefined, Returns(results, value(results, i), <<>>))

CallGetOrDefault ==
  \E i \in DOMAIN results, d \in Values :
    Do("getOrDefault", i, NoFn, NoFn, d, getOrDefault(results, i, d))

CallGetOrElse ==
  \E i \in DOMAIN results, f \in Fns :
    /\ results[i].class = "Err" => Accepts(f, results[i]._value)
    /\ Do("getOrElse", i, f, NoFn, Undefined, getOrElse(results, i, f))

CallToJSON ==
  \E i \in DOMAIN results : Do("toJSON", i, NoFn, NoFn, Undefined, toJSON(results, i))

CallMap ==
  \E i \in DOMAIN results, f \in Fns :
    /\ results[i].class = "Ok" => Accepts(f, results[i]._value)
    /\ Do("map", i, f, NoFn, Undefined, map(results, i, f))

CallFold ==
  \E i \in DOMAIN results, f \in Fns, g \in Fns :
    /\ results[i].class = "Ok" => Accepts(f, results[i]._value)
    /\ results[i].class = "Err" => Accepts(g, results[i]._value)
    /\ Do("fold", i, f, g, Undefined, fold(results, i, f, g))

CallGetOrNull ==
  \E i \in DOMAIN results : Do("getOrNull", i, NoFn, NoFn, Undefined, getOrNull(results, i))

CallErrOrNull ==
  \E i \in DOMAIN results : Do("errOrNull", i, NoFn, NoFn, Undefined, errOrNull(results, i))

CallGetOrThrow ==
  \E i \in DOMAIN results : Do("getOrThrow", i, NoFn, NoFn, Undefined, getOrThrow(results, i))

CallToString ==
  \E i \in DOMAIN results : Do("toString", i, NoFn, NoFn, Undefined, toString(results, i))

Next ==
  \/ CallOk
  \/ CallErr
  \/ ReadIsOk
  \/ ReadIsErr
  \/ ReadValue
  \/ CallGetOrDefault
  \/ CallGetOrElse
  \/ CallToJSON
  \/ CallMap
  \/ CallFold
  \/ CallGetOrNull
  \/ CallErrOrNull
  \/ CallGetOrThrow
  \/ CallToString

Spec == Init /\ [][Next]_vars

TypeOK ==
  /\ Len(results) <= MaxResults
  /\ \A i \in DOMAIN results : results[i].class \in {"Ok", "Err"}

(***************************************************************************)
(* Properties.                                                             *)
(***************************************************************************)
Outcome(e) == <<e.kind, e.ret>>

\* C1: for every value v, falsy and null-like ones included, the instance
\* Result.ok(v) has isOk true, isErr false, value v, getOrNull() v,
\* errOrNull() null, and getOrThrow() returns v without raising; the same
\* holds of every instance of the Ok class for its payload.
C1_OkContract ==
  /\ last.op = "ok" =>
       /\ last.kind = "return"
       /\ last.ret.kind = "result"
       /\ last.ret.n \in DOMAIN results
       /\ results[last.ret.n].class = "Ok"
       /\ value(results, last.ret.n) = last.arg
  /\ \A r \in DOMAIN results :
       results[r].class = "Ok" =>
         /\ isOk(results, r) = TRUE
         /\ isErr(results, r) = FALSE
         /\ value(results, r) = results[r]._value
         /\ Outcome(getOrNull(results, r)) = <<"return", results[r]._value>>
         /\ Outcome(errOrNull(results, r)) = <<"return", Null>>
         /\ Outcome(getOrThrow(results, r)) = <<"return", results[r]._value>>

C1_Witness ==
  /\ last.op = "ok"
  /\ ~Truthy(last.arg)
  /\ last.arg # Null
  /\ results[last.ret.n]._value = last.arg

\* C2: for every error e, the instance Result.err(e) has isOk false, isErr
\* true, value e, getOrNull() null, errOrNull() e, and getOrThrow() does not
\* return but throws that very object e.
C2_ErrContract ==
  /\ last.op = "err" =>
       /\ last.kind = "return"
       /\ last.ret.kind = "result"
       /\ last.ret.n \in DOMAIN results
       /\ results[last.ret.n].class = "Err"
       /\ value(results, last.ret.n) = last.arg
  /\ \A r \in DOMAIN results :
       results[r].class = "Err" =>
         /\ isOk(results, r) = FALSE
         /\ isErr(results, r) = TRUE
         /\ value(results, r) = results[r]._value
         /\ Outcome(getOrNull(results, r)) = <<"return", Null>>
         /\ Outcome(errOrNull(results, r)) = <<"return", results[r]._value>>
         /\ Outcome(getOrThrow(results, r)) = <<"throw", results[r]._value>>
  /\ last.op = "getOrThrow" /\ results[last.self].class = "Err" =>
       /\ last.kind = "throw"
       /\ last.ret = results[last.self]._value

C2_Witness ==
  /\ last.op = "getOrThrow"
  /\ last.kind = "throw"
  /\ results[last.self] = Err(ErrRef(2))
  /\ last.ret = ErrRef(2)

\* C3: in every reachable state every instance has exactly one of isOk and
\* isErr true, and no step changes the variant of an existing instance.
ExactlyOneVariant ==
  \A r \in DOMAIN results :
    /\ isOk(results, r) # isErr(results, r)
    /\ isOk(results, r) <=> results[r].class = "Ok"

VariantFixed ==
  \A r \in DOMAIN results :
    /\ r \in DOMAIN results'
    /\ isOk(results', r) = isOk(results, r)
    /\ isErr(results', r) = isErr(results, r)
    /\ results'[r].class = results[r].class

C3_VariantForLife == []ExactlyOneVariant /\ [][VariantFixed]_vars

C3_Witness ==
  /\ Len(results) = 2
  /\ isErr(results, 1)
  /\ isOk(results, 2)
  /\ last.op = "map"
  /\ last.self = 1

\* C4: no operation changes an existing instance, and map returns a newly
\* created instance distinct from its receiver, for either variant.
MapReturnsFresh ==
  last'.op = "map" =>
    /\ \A r \in DOMAIN results : r \in DOMAIN results' /\ results'[r] = results[r]
    /\ last'.ret.kind = "result"
    /\ last'.ret.n # last'.self
    /\ last'.ret.n \notin DOMAIN results

C4_MapReturnsFresh == [][MapReturnsFresh]_vars

\* C5: map on an Err invokes fn zero times and yields an instance in the Err
\* variant whose errOrNull() is the original error; map on an Ok invokes fn
\* exactly once, with the contained value, and yields Ok(fn(value)).
C5_MapChannels ==
  last.op = "map" =>
    /\ last.kind = "return"
    /\ last.ret.kind = "result"
    /\ last.ret.n \in DOMAIN results
    /\ isErr(results, last.self) =>
         /\ last.calls = <<>>
         /\ isErr(results, last.ret.n)
         /\ ~isOk(results, last.ret.n)
         /\ Outcome(errOrNull(results, last.ret.n)) = <<"return", results[last.self]._value>>
    /\ isOk(results, last.self) =>
         /\ last.calls = <<Invoked("fn", last.fn1, results[last.self]._value)>>
         /\ results[last.ret.n] = Ok(Apply(last.fn1, results[last.self]._value))

C5_Witness ==
  /\ last.op = "map"
  /\ isErr(results, last.self)
  /\ last.fn1 = Const(Num(0))
  /\ last.calls = <<>>

\* C6: one call of fold invokes exactly one of its two functions, exactly
\* once: ifOk with the value on an Ok, ifErr with the error on an Err; and
\* fold returns what that function returned.
C6_FoldTotality ==
  last.op = "fold" =>
    /\ last.kind = "return"
    /\ Len(last.calls) = 1
    /\ isOk(results, last.self) =>
         /\ last.calls[1] = Invoked("ifOk", last.fn1, results[last.self]._value)
         /\ last.ret = Apply(last.fn1, results[last.self]._value)
    /\ isErr(results, last.self) =>
         /\ last.calls[1] = Invoked("ifErr", last.fn2, results[last.self]._value)
         /\ last.ret = Apply(last.fn2, results[last.self]._value)

C6_Witness ==
  /\ last.op = "fold"
  /\ isErr(results, last.self)
  /\ last.fn1 = Const(Null)
  /\ last.fn2 = MsgLen
  /\ last.ret = Num(6)

\* C7: on an Ok, getOrDefault(d) returns the value for any d and
\* getOrElse(onErr) returns the value without invoking onErr; on an Err,
\* getOrDefault(d) returns d and getOrElse(onErr) invokes onErr exactly once,
\* with the error, and returns its result.
C7_ShortCircuit ==
  /\ last.op = "getOrDefault" =>
       /\ last.kind = "return"
       /\ last.calls = <<>>
       /\ isOk(results, last.self) => last.ret = results[last.self]._value
       /\ isErr(results, last.self) => last.ret = last.arg
  /\ last.op = "getOrElse" =>
       /\ last.kind = "return"
       /\ isOk(results, last.self) =>
            /\ last.ret = results[last.self]._value
            /\ last.calls = <<>>
       /\ isErr(results, last.self) =>
            /\ last.calls = <<Invoked("onErr", last.fn1, results[last.self]._value)>>
            /\ last.ret = Apply(last.fn1, results[last.self]._value)

C7_Witness ==
  /\ last.op = "getOrElse"
  /\ isOk(results, last.self)
  /\ ~Truthy(results[last.self]._value)
  /\ last.fn1 = Const(Num(0))
  /\ last.calls = <<>>

\* Everything a client can observe of instance r in heap h.
Obs(h, r) ==
  [isOk |-> isOk(h, r),
   isErr |-> isErr(h, r),
   value |-> value(h, r),
   getOrNull |-> Outcome(getOrNull(h, r)),
   errOrNull |-> Outcome(errOrNull(h, r)),
   getOrThrow |-> Outcome(getOrThrow(h, r)),
   toJSON |-> toJSON(h, r).json,
   toString |-> Outcome(toString(h, r)),
   getOrDefault |-> [d \in Values |-> Outcome(getOrDefault(h, r, d))],
   getOrElse |-> [f \in Fns |-> <<Outcome(getOrElse(h, r, f)), getOrElse(h, r, f).calls>>],
   fold |-> [p \in Fns \X Fns |->
               <<Outcome(fold(h, r, p[1], p[2])), fold(h, r, p[1], p[2]).calls>>]]

\* C8: for either variant, r.map(x => x) agrees with r on isOk, isErr,
\* value, getOrNull, errOrNull, getOrDefault, getOrElse, fold, toJSON,
\* toString and the outcome of getOrThrow.
C8_MapIdentity ==
  last.op = "map" /\ last.fn1 = Id =>
    /\ last.kind = "return"
    /\ last.ret.n \in DOMAIN results
    /\ Obs(results, last.ret.n) = Obs(results, last.self)

C8_Witness ==
  /\ last.op = "map"
  /\ last.fn1 = Id
  /\ isOk(results, last.self)
  /\ last.ret.n # last.self
  /\ results[last.self]._value = Num(0)

\* C9: toJSON() is a record with exactly the fields value, isOk and isErr;
\* value is the raw payload and the flags are those of the instance, so an
\* Ok(v) gives {value: v, isOk: true, isErr: false} and an Err(e) gives
\* {value: e, isOk: false, isErr: true}.
C9_ToJSON ==
  last.op = "toJSON" =>
    /\ last.kind = "return"
    /\ DOMAIN last.json = {"value", "isOk", "isErr"}
    /\ last.json.value = results[last.self]._value
    /\ last.json.isOk = isOk(results, last.self)
    /\ last.json.isErr = isErr(results, last.self)
    /\ results[last.self].class = "Ok" =>
         last.json = [value |-> results[last.self]._value, isOk |-> TRUE, isErr |-> FALSE]
    /\ results[last.self].class = "Err" =>
         last.json = [value |-> results[last.self]._value, isOk |-> FALSE, isErr |-> TRUE]

C9_Witness ==
  /\ last.op = "toJSON"
  /\ results[last.self].class = "Err"
  /\ last.json = [value |-> ErrRef(1), isOk |-> FALSE, isErr |-> TRUE]

\* C10: for either variant each read-only accessor equals its expression in
\* terms of fold: getOrDefault(d) = fold(v => v, _ => d), getOrElse(f) =
\* fold(v => v, f), getOrNull() = fold(v => v, _ => null), errOrNull() =
\* fold(_ => null, e => e), isOk = fold(_ => true, _ => false) and
\* isErr = fold(_ => false, _ => true).
C10_FoldEliminator ==
  \A r \in DOMAIN results :
    /\ \A d \in Values :
         Outcome(getOrDefault(results, r, d)) = Outcome(fold(results, r, Id, Const(d)))
    /\ \A f \in Fns :
         Outcome(getOrElse(results, r, f)) = Outcome(fold(results, r, Id, f))
    /\ Outcome(getOrNull(results, r)) = Outcome(fold(results, r, Id, Const(Null)))
    /\ Outcome(errOrNull(results, r)) = Outcome(fold(results, r, Const(Null), Id))
    /\ Bool(isOk(results, r)) = fold(results, r, Const(Bool(TRUE)), Const(Bool(FALSE))).ret
    /\ Bool(isErr(results, r)) = fold(results, r, Const(Bool(FALSE)), Const(Bool(TRUE))).ret

C10_Witness ==
  /\ last.op = "getOrDefault"
  /\ results[last.self] = Ok(Null)
  /\ last.arg = Num(1)
  /\ last.ret = Null
  /\ \E r \in DOMAIN results : results[r].class = "Err"
====
